---- MODULE Spec2Model ----
(***************************************************************************)
(* SuperScribe (superscribe_win.py): the hotkey-driven recording and       *)
(* transcription session.  AudioRecorder, TranscriptionService and the     *)
(* two hotkey callbacks of SuperScribeApp are modelled statement by        *)
(* statement; the audio device, the clock, the file system and the         *)
(* transcription service are the environment.                              *)
(*                                                                         *)
(* Python strings are sequences of one-character strings, so that          *)
(* startswith, endswith, lower and the f-strings are computed as the code  *)
(* computes them.  None and the empty string are both <<>>: the code only  *)
(* ever tests these values for truthiness.                                 *)
(*                                                                         *)
(* Environment: the device delivers a chunk, fails, or blocks in a read;   *)
(* opening a stream succeeds or raises; the service answers with a text,   *)
(* with a response without text, or raises.  Writing the file, the         *)
(* clipboard, the paste keystroke and the tray notification do not fail.   *)
(* A read that is in progress when its stream is closed either returns     *)
(* data or raises.                                                         *)
(***************************************************************************)
EXTENDS Integers, Sequences, FiniteSets, TLC

(* ---------------------------- bounds ----------------------------------- *)
\* hotkey events the environment issues in one run
MaxEvents == 3
\* hotkey events waiting for a callback thread
MaxPending == 1
\* chunks the audio device delivers in one run
MaxChunks == 2
\* seconds the wall clock advances in one run
MaxTime == 1
\* bytes of one chunk as the model scales it (chunk * sample width in the code)
ChunkBytes == 2
\* hotkey events the environment issues when two callback threads run
MaxConcEvents == 2

(* ---------------------------- strings ---------------------------------- *)
StartsWith(s, p) == Len(s) >= Len(p) /\ SubSeq(s, 1, Len(p)) = p

EndsWith(s, p) == Len(s) >= Len(p) /\ SubSeq(s, Len(s) - Len(p) + 1, Len(s)) = p

UpperChars == <<"A","B","C","D","E","F","G","H","I","J","K","L","M",
                "N","O","P","Q","R","S","T","U","V","W","X","Y","Z">>

LowerChars == <<"a","b","c","d","e","f","g","h","i","j","k","l","m",
                "n","o","p","q","r","s","t","u","v","w","x","y","z">>

LowerChar(c) ==
    IF \E i \in 1..Len(UpperChars) : UpperChars[i] = c
    THEN LowerChars[CHOOSE i \in 1..Len(UpperChars) : UpperChars[i] = c]
    ELSE c

Lower(s) == [i \in 1..Len(s) |-> LowerChar(s[i])]

Digits == <<"0","1","2","3","4","5","6","7","8","9">>

TwoDigits(n) == <<Digits[(n \div 10) + 1], Digits[(n % 10) + 1]>>

RECURSIVE Join(_)
Join(chunks) == IF chunks = <<>> THEN <<>> ELSE Head(chunks) \o Join(Tail(chunks))

(* the literals of the source *)
ErrorPrefix == <<"E","r","r","o","r",":">>

MsgNotFound == <<"E","r","r","o","r",":"," ","A","u","d","i","o"," ","f","i","l","e"," ","n","o","t"," ","f","o","u","n","d",":"," ">>

MsgEmptyFile == <<"E","r","r","o","r",":"," ","A","u","d","i","o"," ","f","i","l","e"," ","i","s"," ","e","m","p","t","y">>

MsgInvalidResponse == <<"E","r","r","o","r",":"," ","R","e","c","e","i","v","e","d"," ","i","n","v","a","l","i","d"," ","r","e","s","p","o","n","s","e"," ","f","r","o","m"," ","G","e","m","i","n","i"," ","A","P","I">>

MsgDuringTranscription == <<"E","r","r","o","r"," ","d","u","r","i","n","g"," ","t","r","a","n","s","c","r","i","p","t","i","o","n",":"," ">>

StorageDir == <<"r","e","c","o","r","d","i","n","g","s">>

PathSep == <<"\\">>

NotifyCompleted == "Transcription completed and pasted at cursor position"

NotifyTranscriptionFailed == "Transcription failed. Check log for details."

NotifyRecordingFailed == "Recording failed. Check microphone connection."

(* ---------------------------- environment ------------------------------ *)
\* what the stubbed transcription service can answer with
HelloWorld == <<"h","e","l","l","o"," ","w","o","r","l","d">>

SpokenError == <<"E","r","r","o","r",":"," ","s","t","o","p">>

TransportMessage == <<"t","i","m","e","o","u","t">>

ServiceOutcomes ==
    { [kind |-> "text", text |-> HelloWorld],
      [kind |-> "text", text |-> <<>>],
      [kind |-> "text", text |-> SpokenError],
      [kind |-> "invalid", text |-> <<>>],
      [kind |-> "raise", text |-> TransportMessage] }

\* the data one blocking read of the device returns: ChunkBytes bytes
Chunk(k) == [i \in 1..ChunkBytes |-> (k - 1) * ChunkBytes + i]

\* the callback threads of the hotkey listener
Handlers == {1, 2}

VARIABLES
    \* SuperScribeApp
    recording, history, notified, clipboard, pasted,
    \* AudioRecorder
    is_recording, frames, stream, recording_thread,
    \* the audio device, its streams and the capture threads
    streams, threads, devSeq,
    \* the file system, the clock and the transcription service
    files, now, requests,
    \* the hotkey listener: events received, and each callback thread
    pending, nEvents, pc, ev, audio_file, transcription, started, stopped, svc, wrote, snap,
    \* bookkeeping: the device chunk count when the running session began, and
    \* whether start_recording has opened it
    sessionBase, sessionOpened,
    \* the process: starting up, running, or exited
    process

appVars == <<recording, history, notified, clipboard, pasted>>

recorderVars == <<is_recording, frames, stream, recording_thread>>

deviceVars == <<streams, threads, devSeq>>

worldVars == <<files, now, requests>>

hotkeyVars == <<pending, nEvents>>

localVars == <<ev, audio_file, transcription, started, stopped, svc, wrote, snap>>

sessionVars == <<sessionBase, sessionOpened>>

vars == <<appVars, recorderVars, deviceVars, worldVars, hotkeyVars, pc, localVars, sessionVars, process>>

\* bookkeeping of one callback: what stop_recording decided on, and the logs
\* as the callback found them
NoWrite == [path |-> <<>>, base |-> 0, upto |-> 0, files |-> {}]

\* the recorder as start_recording found it
NoRecorder == [is_recording |-> FALSE, frames |-> <<>>, stream |-> 0, recording_thread |-> 0,
               threads |-> 0]

NoSnap == [history |-> 0, pasted |-> 0, notified |-> 0, requests |-> 0, recorder |-> NoRecorder]

NoEvent == [kind |-> "none", during |-> "Idle"]

Init ==
    /\ recording = FALSE
    /\ history = <<>>
    /\ notified = <<>>
    /\ clipboard = <<>>
    /\ pasted = <<>>
    /\ is_recording = FALSE
    /\ frames = <<>>
    /\ stream = 0
    /\ recording_thread = 0
    /\ streams = <<>>
    /\ threads = <<>>
    /\ devSeq = 0
    /\ files = {}
    /\ now = 0
    /\ requests = <<>>
    /\ pending = <<>>
    /\ nEvents = 0
    /\ pc = [h \in Handlers |-> "idle"]
    /\ ev = [h \in Handlers |-> NoEvent]
    /\ audio_file = [h \in Handlers |-> <<>>]
    /\ transcription = [h \in Handlers |-> <<>>]
    /\ started = [h \in Handlers |-> "none"]
    /\ stopped = [h \in Handlers |-> "none"]
    /\ svc = [h \in Handlers |-> "none"]
    /\ wrote = [h \in Handlers |-> NoWrite]
    /\ snap = [h \in Handlers |-> NoSnap]
    /\ sessionBase = 0
    /\ sessionOpened = FALSE
    /\ process = "boot"

(* ---------------------------- session state ---------------------------- *)
\* a callback thread is inside transcribe_audio_file, or holds its result
\* and has not branched on it yet
InFlight(h) == pc[h] \in {"t_validate", "t_request", "r_result"}

Transcribing == \E h \in Handlers : InFlight(h)

SessionState ==
    IF Transcribing THEN "Transcribing"
    ELSE IF recording THEN "Recording" ELSE "Idle"

Idle == SessionState = "Idle"

(* ---------------------------- start-up --------------------------------- *)
\* lines 42-45: without GEMINI_API_KEY the module exits with status 1
BootCredentials ==
    /\ process = "boot"
    /\ \E api_key \in {<<>>, <<"k">>} :
          process' = IF api_key = <<>> THEN "exit_credential" ELSE "constructing"
    /\ UNCHANGED <<appVars, recorderVars, deviceVars, worldVars, hotkeyVars, pc, localVars,
                   sessionVars>>

\* lines 64-73 and 427-433: AudioRecorder.__init__ raises ValueError when
\* PyAudio() fails or no input device is found; main() catches it and
\* exits with status 1.  Otherwise the hooks are set and the listener runs.
BootRecorder ==
    /\ process = "constructing"
    /\ \E device \in {"found", "none", "pyaudio_failed"} :
          process' = IF device = "found" THEN "running" ELSE "exit_audio"
    /\ UNCHANGED <<appVars, recorderVars, deviceVars, worldVars, hotkeyVars, pc, localVars,
                   sessionVars>>

Boot == BootCredentials \/ BootRecorder

Exited == process \in {"exit_credential", "exit_audio"}

(* ---------------------------- environment steps ------------------------ *)
\* keyboard: the user presses or releases the hotkey; the listener queues
\* the event for a callback thread
Hotkey(k) ==
    /\ process = "running"
    /\ nEvents < MaxEvents
    /\ Len(pending) < MaxPending
    /\ pending' = Append(pending, [kind |-> k, during |-> SessionState])
    /\ nEvents' = nEvents + 1
    /\ UNCHANGED <<appVars, recorderVars, deviceVars, worldVars, pc, localVars, sessionVars, process>>

\* datetime.datetime.now(): the clock has not gone back since it was last read
ClockReads == now..MaxTime

\* a callback thread takes the next event and enters its callback
Dispatch(h) ==
    /\ pc[h] = "idle"
    /\ pending # <<>>
    /\ ev' = [ev EXCEPT ![h] = Head(pending)]
    /\ pending' = Tail(pending)
    /\ pc' = [pc EXCEPT ![h] = IF Head(pending).kind = "down" THEN "p_check" ELSE "r_check"]
    /\ snap' = [snap EXCEPT ![h] = [history |-> Len(history), pasted |-> Len(pasted),
                                     notified |-> Len(notified), requests |-> Len(requests),
                                     recorder |-> NoRecorder]]
    /\ UNCHANGED <<appVars, recorderVars, deviceVars, worldVars, nEvents,
                   audio_file, transcription, started, stopped, svc, wrote, sessionVars, process>>

\* the callback returns to the listener; its locals are gone
Return(h) ==
    /\ pc[h] = "return"
    /\ pc' = [pc EXCEPT ![h] = "idle"]
    /\ ev' = [ev EXCEPT ![h] = NoEvent]
    /\ audio_file' = [audio_file EXCEPT ![h] = <<>>]
    /\ transcription' = [transcription EXCEPT ![h] = <<>>]
    /\ started' = [started EXCEPT ![h] = "none"]
    /\ stopped' = [stopped EXCEPT ![h] = "none"]
    /\ svc' = [svc EXCEPT ![h] = "none"]
    /\ wrote' = [wrote EXCEPT ![h] = NoWrite]
    /\ snap' = [snap EXCEPT ![h] = NoSnap]
    /\ UNCHANGED <<appVars, recorderVars, deviceVars, worldVars, hotkeyVars, sessionVars, process>>

(* ---------------------------- on_hotkey_pressed ------------------------ *)
\* line 274: if not self.recording
PressCheck(h) ==
    /\ pc[h] = "p_check"
    /\ pc' = [pc EXCEPT ![h] = IF ~recording THEN "p_set" ELSE "return"]
    /\ UNCHANGED <<appVars, recorderVars, deviceVars, worldVars, hotkeyVars, localVars, sessionVars, process>>

\* line 275: self.recording = True
PressSet(h) ==
    /\ pc[h] = "p_set"
    /\ recording' = TRUE
    /\ pc' = [pc EXCEPT ![h] = "s_reset"]
    /\ UNCHANGED <<history, notified, clipboard, pasted, recorderVars, deviceVars,
                   worldVars, hotkeyVars, localVars, sessionVars, process>>

(* ---------------------------- AudioRecorder.start_recording ------------ *)
\* lines 105-106: self.frames = []; self.is_recording = True
\* (self.audio is never None in a running application: __init__ raises then)
StartReset(h) ==
    /\ pc[h] = "s_reset"
    /\ frames' = <<>>
    /\ is_recording' = TRUE
    /\ sessionBase' = devSeq
    /\ sessionOpened' = FALSE
    /\ snap' = [snap EXCEPT ![h].recorder =
                   [is_recording |-> is_recording, frames |-> frames, stream |-> stream,
                    recording_thread |-> recording_thread, threads |-> Len(threads)]]
    /\ pc' = [pc EXCEPT ![h] = "s_open"]
    /\ UNCHANGED <<appVars, stream, recording_thread, deviceVars, worldVars, hotkeyVars,
                   ev, audio_file, transcription, started, stopped, svc, wrote, process>>

\* lines 108-115 and 124-127: self.stream = self.audio.open(...), which raises
\* when the device cannot be opened
StartOpen(h) ==
    /\ pc[h] = "s_open"
    /\ \/ /\ streams' = Append(streams, "open")
          /\ stream' = Len(streams) + 1
          /\ pc' = [pc EXCEPT ![h] = "s_thread"]
          /\ UNCHANGED <<is_recording, started>>
       \/ /\ is_recording' = FALSE
          /\ started' = [started EXCEPT ![h] = "failed"]
          /\ pc' = [pc EXCEPT ![h] = "return"]
          /\ UNCHANGED <<streams, stream>>
    /\ UNCHANGED <<appVars, frames, recording_thread, threads, devSeq, worldVars,
                   hotkeyVars, ev, audio_file, transcription, stopped, svc, wrote, snap, sessionVars, process>>

\* lines 120-123: the capture thread is created and started
StartThread(h) ==
    /\ pc[h] = "s_thread"
    /\ threads' = Append(threads, [pc |-> "test", rd |-> 0])
    /\ recording_thread' = Len(threads) + 1
    /\ started' = [started EXCEPT ![h] = "ok"]
    /\ sessionOpened' = TRUE
    /\ pc' = [pc EXCEPT ![h] = "return"]
    /\ UNCHANGED <<appVars, is_recording, frames, stream, streams, devSeq, worldVars,
                   hotkeyVars, ev, audio_file, transcription, stopped, svc, wrote, snap,
                   sessionBase, process>>

(* ---------------------------- AudioRecorder._record -------------------- *)
\* line 132: while self.is_recording; line 133 begins the read on self.stream,
\* which raises at once on a stream that is closed (lines 135-137)
ThreadTest(t) ==
    /\ threads[t].pc = "test"
    /\ IF ~is_recording
       THEN /\ threads' = [threads EXCEPT ![t].pc = "done"]
            /\ UNCHANGED is_recording
       ELSE IF streams[stream] = "closed"
       THEN /\ threads' = [threads EXCEPT ![t].pc = "done"]
            /\ is_recording' = FALSE
       ELSE /\ threads' = [threads EXCEPT ![t] = [pc |-> "read", rd |-> stream]]
            /\ UNCHANGED is_recording
    /\ UNCHANGED <<appVars, frames, stream, recording_thread, streams, devSeq, worldVars,
                   hotkeyVars, pc, localVars, sessionVars, process>>

\* lines 133-134: the blocking read returns a chunk, which is appended
ThreadRead(t) ==
    /\ threads[t].pc = "read"
    /\ devSeq < MaxChunks
    /\ devSeq' = devSeq + 1
    /\ frames' = Append(frames, Chunk(devSeq + 1))
    /\ threads' = [threads EXCEPT ![t].pc = "test"]
    /\ UNCHANGED <<appVars, is_recording, stream, recording_thread, streams, worldVars,
                   hotkeyVars, pc, localVars, sessionVars, process>>

\* lines 133, 135-137: the blocking read raises (device error, or the stream
\* was closed under it)
ThreadReadError(t) ==
    /\ threads[t].pc = "read"
    /\ is_recording' = FALSE
    /\ threads' = [threads EXCEPT ![t].pc = "done"]
    /\ UNCHANGED <<appVars, frames, stream, recording_thread, streams, devSeq, worldVars,
                   hotkeyVars, pc, localVars, sessionVars, process>>

(* ---------------------------- files ------------------------------------ *)
\* line 161: datetime.datetime.now().strftime("%Y%m%d_%H%M%S"), the clock
\* counting seconds from 2025-01-01 00:00:00
Timestamp(t) == <<"2","0","2","5","0","1","0","1","_","0","0","0","0">> \o TwoDigits(t)

\* line 162: os.path.join(self.storage_dir, f"recording_{timestamp}.wav")
RecordingPath(t) ==
    StorageDir \o PathSep \o <<"r","e","c","o","r","d","i","n","g","_">> \o Timestamp(t)
        \o <<".","w","a","v">>

\* lines 165-169: the container is a header ("RIFF"...) and then the PCM data,
\* b''.join(self.frames)
WavHeader == <<82, 73, 70, 70>>

\* mutant: only the last chunk is written
WavBytesLastChunk(fr) == WavHeader \o fr[Len(fr)]

WavBytes(fr) == WavHeader \o Join(fr)

\* the PCM data section of a container, as wave.open(..., 'rb') reads it back
PcmData(bytes) == SubSeq(bytes, Len(WavHeader) + 1, Len(bytes))

\* open(filename, 'wb'): creates the file or replaces the one of that name
WriteFile(fs, path, bytes) == {f \in fs : f.path # path} \cup {[path |-> path, bytes |-> bytes]}

Exists(fs, path) == \E f \in fs : f.path = path

ReadFile(fs, path) == (CHOOSE f \in fs : f.path = path).bytes

GetSize(fs, path) == Len(ReadFile(fs, path))

(* ---------------------------- on_hotkey_released ----------------------- *)
\* mutant: the flag is not tested
ReleaseCheckAlways(h) ==
    /\ pc[h] = "r_check"
    /\ pc' = [pc EXCEPT ![h] = "r_set"]
    /\ UNCHANGED <<appVars, recorderVars, deviceVars, worldVars, hotkeyVars, localVars, sessionVars, process>>

\* line 281: if self.recording
ReleaseCheck(h) ==
    /\ pc[h] = "r_check"
    /\ pc' = [pc EXCEPT ![h] = IF recording THEN "r_set" ELSE "return"]
    /\ UNCHANGED <<appVars, recorderVars, deviceVars, worldVars, hotkeyVars, localVars, sessionVars, process>>

\* mutant: the flag is not reset
ReleaseSetKeepsFlag(h) ==
    /\ pc[h] = "r_set"
    /\ pc' = [pc EXCEPT ![h] = "st_guard"]
    /\ UNCHANGED <<appVars, recorderVars, deviceVars, worldVars, hotkeyVars, localVars, sessionVars, process>>

\* line 282: self.recording = False
ReleaseSet(h) ==
    /\ pc[h] = "r_set"
    /\ recording' = FALSE
    /\ pc' = [pc EXCEPT ![h] = "st_guard"]
    /\ UNCHANGED <<history, notified, clipboard, pasted, recorderVars, deviceVars,
                   worldVars, hotkeyVars, localVars, sessionVars, process>>

(* ---------------------------- AudioRecorder.stop_recording ------------- *)
\* mutant: the guard is missing
StopGuardMissing(h) ==
    /\ pc[h] = "st_guard"
    /\ pc' = [pc EXCEPT ![h] = "st_flag"]
    /\ UNCHANGED <<appVars, recorderVars, deviceVars, worldVars, hotkeyVars, localVars, sessionVars, process>>

\* lines 141-142: if not self.is_recording or self.audio is None: return None
\* (line 288, 314: without a file the caller goes on to notify the failure)
StopGuard(h) ==
    /\ pc[h] = "st_guard"
    /\ IF ~is_recording
       THEN /\ stopped' = [stopped EXCEPT ![h] = "guard"]
            /\ audio_file' = [audio_file EXCEPT ![h] = <<>>]
            /\ pc' = [pc EXCEPT ![h] = "r_nofile"]
       ELSE /\ pc' = [pc EXCEPT ![h] = "st_flag"]
            /\ UNCHANGED <<stopped, audio_file>>
    /\ UNCHANGED <<appVars, recorderVars, deviceVars, worldVars, hotkeyVars,
                   ev, transcription, started, svc, wrote, snap, sessionVars, process>>

\* line 144: self.is_recording = False
StopFlag(h) ==
    /\ pc[h] = "st_flag"
    /\ is_recording' = FALSE
    /\ pc' = [pc EXCEPT ![h] = "st_join"]
    /\ UNCHANGED <<appVars, frames, stream, recording_thread, deviceVars, worldVars,
                   hotkeyVars, localVars, sessionVars, process>>

\* mutant: join() without a timeout returns only when the thread has ended
StopJoinUnbounded(h) ==
    /\ pc[h] = "st_join"
    /\ \/ recording_thread = 0
       \/ /\ recording_thread # 0
          /\ threads[recording_thread].pc = "done"
    /\ pc' = [pc EXCEPT ![h] = "st_close"]
    /\ UNCHANGED <<appVars, recorderVars, deviceVars, worldVars, hotkeyVars, localVars, sessionVars, process>>

\* lines 147-148: self.recording_thread.join(timeout=2.0) returns when the
\* thread has ended, or after two seconds while it is blocked in a read
StopJoin(h) ==
    /\ pc[h] = "st_join"
    /\ \/ recording_thread = 0
       \/ /\ recording_thread # 0
          /\ threads[recording_thread].pc \in {"done", "read"}
    /\ pc' = [pc EXCEPT ![h] = "st_close"]
    /\ UNCHANGED <<appVars, recorderVars, deviceVars, worldVars, hotkeyVars, localVars, sessionVars, process>>

\* lines 150-152: self.stream.stop_stream(); self.stream.close(), which raise
\* on a stream that is closed already (lines 173-175: return None)
StopClose(h) ==
    /\ pc[h] = "st_close"
    /\ IF stream = 0
       THEN /\ pc' = [pc EXCEPT ![h] = "st_frames"]
            /\ UNCHANGED <<streams, stopped, audio_file>>
       ELSE IF streams[stream] = "closed"
       THEN /\ stopped' = [stopped EXCEPT ![h] = "error"]
            /\ audio_file' = [audio_file EXCEPT ![h] = <<>>]
            /\ pc' = [pc EXCEPT ![h] = "r_nofile"]
            /\ UNCHANGED streams
       ELSE /\ streams' = [streams EXCEPT ![stream] = "closed"]
            /\ pc' = [pc EXCEPT ![h] = "st_frames"]
            /\ UNCHANGED <<stopped, audio_file>>
    /\ UNCHANGED <<appVars, recorderVars, threads, devSeq, worldVars, hotkeyVars,
                   ev, transcription, started, svc, wrote, snap, sessionVars, process>>

\* mutant: the buffer is not tested
StopFramesNoCheck(h) ==
    /\ pc[h] = "st_frames"
    /\ pc' = [pc EXCEPT ![h] = "st_write"]
    /\ UNCHANGED <<appVars, recorderVars, deviceVars, worldVars, hotkeyVars, localVars, sessionVars, process>>

\* lines 156-158: if not self.frames: return None
StopFrames(h) ==
    /\ pc[h] = "st_frames"
    /\ IF frames = <<>>
       THEN /\ stopped' = [stopped EXCEPT ![h] = "empty"]
            /\ audio_file' = [audio_file EXCEPT ![h] = <<>>]
            /\ wrote' = [wrote EXCEPT ![h] = [path |-> <<>>, base |-> sessionBase,
                                              upto |-> devSeq, files |-> files]]
            /\ pc' = [pc EXCEPT ![h] = "r_nofile"]
       ELSE /\ pc' = [pc EXCEPT ![h] = "st_write"]
            /\ UNCHANGED <<stopped, audio_file, wrote>>
    /\ UNCHANGED <<appVars, recorderVars, deviceVars, worldVars, hotkeyVars,
                   ev, transcription, started, svc, snap, sessionVars, process>>

\* lines 161-172: the file is written and its name returned (line 288: the
\* name is a non-empty string, so the caller goes on to transcribe it)
StopWrite(h) ==
    /\ pc[h] = "st_write"
    /\ now' \in ClockReads
    /\ files' = WriteFile(files, RecordingPath(now'), WavBytes(frames))
    /\ audio_file' = [audio_file EXCEPT ![h] = RecordingPath(now')]
    /\ stopped' = [stopped EXCEPT ![h] = "file"]
    /\ wrote' = [wrote EXCEPT ![h] = [path |-> RecordingPath(now'), base |-> sessionBase,
                                      upto |-> devSeq, files |-> files]]
    /\ pc' = [pc EXCEPT ![h] = "t_validate"]
    /\ UNCHANGED <<appVars, recorderVars, deviceVars, requests, hotkeyVars,
                   ev, transcription, started, svc, snap, sessionVars, process>>

(* ---------------------------- TranscriptionService --------------------- *)
\* mutant: .m4a is given a content type of its own name
MimeTypeM4a(path) ==
    IF EndsWith(Lower(path), <<".","m","p","3">>) THEN "audio/mpeg"
    ELSE IF EndsWith(Lower(path), <<".","w","a","v">>) THEN "audio/wav"
    ELSE IF EndsWith(Lower(path), <<".","m","4","a">>) THEN "audio/m4a"
    ELSE IF EndsWith(Lower(path), <<".","o","g","g">>) THEN "audio/ogg"
    ELSE "audio/wav"

\* lines 204-213: the MIME type from the file extension
MimeType(path) ==
    IF EndsWith(Lower(path), <<".","m","p","3">>) THEN "audio/mpeg"
    ELSE IF EndsWith(Lower(path), <<".","w","a","v">>) THEN "audio/wav"
    ELSE IF EndsWith(Lower(path), <<".","m","4","a">>) THEN "audio/mp4"
    ELSE IF EndsWith(Lower(path), <<".","o","g","g">>) THEN "audio/ogg"
    ELSE "audio/wav"

\* mutant: the size of the file is not looked at
TranscribeValidateNoSize(h) ==
    /\ pc[h] = "t_validate"
    /\ IF ~Exists(files, audio_file[h])
       THEN /\ transcription' = [transcription EXCEPT ![h] = MsgNotFound \o audio_file[h]]
            /\ pc' = [pc EXCEPT ![h] = "r_result"]
       ELSE /\ pc' = [pc EXCEPT ![h] = "t_request"]
            /\ UNCHANGED transcription
    /\ UNCHANGED <<appVars, recorderVars, deviceVars, worldVars, hotkeyVars,
                   ev, audio_file, started, stopped, svc, wrote, snap, sessionVars, process>>

\* lines 190-200: the file is checked before anything is sent
TranscribeValidate(h) ==
    /\ pc[h] = "t_validate"
    /\ IF ~Exists(files, audio_file[h])
       THEN /\ transcription' = [transcription EXCEPT ![h] = MsgNotFound \o audio_file[h]]
            /\ pc' = [pc EXCEPT ![h] = "r_result"]
       ELSE IF GetSize(files, audio_file[h]) = 0
       THEN /\ transcription' = [transcription EXCEPT ![h] = MsgEmptyFile]
            /\ pc' = [pc EXCEPT ![h] = "r_result"]
       ELSE /\ pc' = [pc EXCEPT ![h] = "t_request"]
            /\ UNCHANGED transcription
    /\ UNCHANGED <<appVars, recorderVars, deviceVars, worldVars, hotkeyVars,
                   ev, audio_file, started, stopped, svc, wrote, snap, sessionVars, process>>

\* lines 216-249: one request; the service answers with a text, with a
\* response that has no text, or the call raises
TranscribeRequest(h) ==
    /\ pc[h] = "t_request"
    /\ \E o \in ServiceOutcomes :
        /\ requests' = Append(requests, [path |-> audio_file[h], mime |-> MimeType(audio_file[h])])
        /\ svc' = [svc EXCEPT ![h] = o.kind]
        /\ transcription' = [transcription EXCEPT ![h] =
               CASE o.kind = "text" -> o.text
                 [] o.kind = "invalid" -> MsgInvalidResponse
                 [] o.kind = "raise" -> MsgDuringTranscription \o o.text]
    /\ pc' = [pc EXCEPT ![h] = "r_result"]
    /\ UNCHANGED <<appVars, recorderVars, deviceVars, files, now, hotkeyVars,
                   ev, audio_file, started, stopped, wrote, snap, sessionVars, process>>

(* ---------------------------- on_hotkey_released, continued ------------ *)
\* line 292: if transcription and not transcription.startswith("Error:")
IsSuccess(text) == text # <<>> /\ ~StartsWith(text, ErrorPrefix)

\* mutant: a transcription that failed is sent again
ReleaseResultRetry(h) ==
    /\ pc[h] = "r_result"
    /\ pc' = [pc EXCEPT ![h] = IF IsSuccess(transcription[h]) THEN "r_paste"
                               ELSE IF svc[h] = "invalid" THEN "t_validate" ELSE "r_failed"]
    /\ UNCHANGED <<appVars, recorderVars, deviceVars, worldVars, hotkeyVars, localVars, sessionVars, process>>

\* mutant: the text is not delivered before it is recorded
ReleaseResultNoDelivery(h) ==
    /\ pc[h] = "r_result"
    /\ pc' = [pc EXCEPT ![h] = IF IsSuccess(transcription[h]) THEN "r_history" ELSE "r_failed"]
    /\ UNCHANGED <<appVars, recorderVars, deviceVars, worldVars, hotkeyVars, localVars, sessionVars, process>>

ReleaseResult(h) ==
    /\ pc[h] = "r_result"
    /\ pc' = [pc EXCEPT ![h] = IF IsSuccess(transcription[h]) THEN "r_paste" ELSE "r_failed"]
    /\ UNCHANGED <<appVars, recorderVars, deviceVars, worldVars, hotkeyVars, localVars, sessionVars, process>>

\* lines 294, 321-332: pyperclip.copy(text); pyautogui.hotkey('ctrl', 'v')
\* line 325: the text is put on the clipboard
PasteCopy(h) ==
    /\ pc[h] = "r_paste"
    /\ clipboard' = transcription[h]
    /\ pc' = [pc EXCEPT ![h] = "r_keystroke"]
    /\ UNCHANGED <<recording, history, notified, pasted, recorderVars, deviceVars, worldVars,
                   hotkeyVars, localVars, sessionVars, process>>

\* line 328: Ctrl+V pastes what the clipboard holds
PasteKeystroke(h) ==
    /\ pc[h] = "r_keystroke"
    /\ pasted' = Append(pasted, clipboard)
    /\ pc' = [pc EXCEPT ![h] = "r_history"]
    /\ UNCHANGED <<recording, history, notified, clipboard, recorderVars, deviceVars, worldVars,
                   hotkeyVars, localVars, sessionVars, process>>

\* mutant: the entry holds the file name where the text belongs
HistoryAppendSwapped(h) ==
    /\ pc[h] = "r_history"
    /\ now' \in ClockReads
    /\ history' = Append(history, [timestamp |-> now', audio_file |-> transcription[h],
                                   transcription |-> audio_file[h]])
    /\ pc' = [pc EXCEPT ![h] = "r_completed"]
    /\ UNCHANGED <<recording, notified, clipboard, pasted, recorderVars, deviceVars, files,
                   requests, hotkeyVars, localVars, sessionVars, process>>

\* lines 297-301: self.history.append({...})
HistoryAppend(h) ==
    /\ pc[h] = "r_history"
    /\ now' \in ClockReads
    /\ history' = Append(history, [timestamp |-> now', audio_file |-> audio_file[h],
                                   transcription |-> transcription[h]])
    /\ pc' = [pc EXCEPT ![h] = "r_completed"]
    /\ UNCHANGED <<recording, notified, clipboard, pasted, recorderVars, deviceVars, files,
                   requests, hotkeyVars, localVars, sessionVars, process>>

\* lines 304-307, 310-313, 316-319: self.tray_icon.notify(...)
Notify(h) ==
    /\ pc[h] \in {"r_completed", "r_failed", "r_nofile"}
    /\ notified' = Append(notified,
           CASE pc[h] = "r_completed" -> NotifyCompleted
             [] pc[h] = "r_failed" -> NotifyTranscriptionFailed
             [] pc[h] = "r_nofile" -> NotifyRecordingFailed)
    /\ pc' = [pc EXCEPT ![h] = "return"]
    /\ UNCHANGED <<recording, history, clipboard, pasted, recorderVars, deviceVars, worldVars,
                   hotkeyVars, localVars, sessionVars, process>>

(* ---------------------------- specifications --------------------------- *)
HandlerStep(h) ==
    \/ Dispatch(h) \/ Return(h)
    \/ PressCheck(h) \/ PressSet(h)
    \/ StartReset(h) \/ StartOpen(h) \/ StartThread(h)
    \/ ReleaseCheck(h) \/ ReleaseSet(h)
    \/ StopGuard(h) \/ StopFlag(h) \/ StopJoin(h) \/ StopClose(h) \/ StopFrames(h) \/ StopWrite(h)
    \/ TranscribeValidate(h) \/ TranscribeRequest(h)
    \/ ReleaseResult(h) \/ PasteCopy(h) \/ PasteKeystroke(h) \/ HistoryAppend(h) \/ Notify(h)

DeviceStep ==
    \/ \E t \in 1..Len(threads) : ThreadTest(t)
    \/ \E t \in 1..Len(threads) : ThreadRead(t)
    \/ \E t \in 1..Len(threads) : ThreadReadError(t)

\* the hotkey listener runs the callbacks one after the other on one thread
Next ==
    \/ Boot
    \/ \E k \in {"down", "up"} : Hotkey(k)
    \/ DeviceStep
    \/ HandlerStep(1)

Spec == Init /\ [][Next]_vars

\* the callbacks run on two threads
HotkeyConc(k) == nEvents < MaxConcEvents /\ Hotkey(k)

NextConc ==
    \/ Boot
    \/ \E k \in {"down", "up"} : HotkeyConc(k)
    \/ DeviceStep
    \/ \E h \in Handlers : HandlerStep(h)

SpecConc == Init /\ [][NextConc]_vars

(* ---------------------------- properties ------------------------------- *)
Last(q) == q[Len(q)]

\* C1: whenever the callback of a hotkey-up has finished, whatever start,
\* capture, stop and transcription did, the controller is Idle: not
\* recording and no transcription in flight.
C1_IdleAfterEachPair ==
    \A h \in Handlers : (pc[h] = "return" /\ ev[h].kind = "up") => Idle

\* a hotkey-up that followed an accepted hotkey-down, its callback finished
C1_Witness ==
    /\ pc[1] = "return" /\ ev[1].kind = "up"
    /\ ev[1].during = "Recording" /\ stopped[1] = "file"

\* C2: start_recording is not entered while the recorder is recording, so a
\* hotkey-down never clears or replaces the buffer of a running session,
\* also when two hotkey-down callbacks are interleaved.
C2_NoSecondStart ==
    \A h \in Handlers : pc[h] = "s_reset" => ~is_recording

\* C3: a hotkey-down received while a transcription is in flight never gets
\* past the guard of on_hotkey_pressed: no recording is started for it.
C3_DownIgnoredWhileTranscribing ==
    \A h \in Handlers :
        (ev[h].kind = "down" /\ ev[h].during = "Transcribing")
            => pc[h] \notin {"p_set", "s_reset", "s_open", "s_thread"}

\* C4: when the service call raised, the callback ends with the controller
\* Idle, the history and the pasted texts as it found them, and exactly one
\* notification more, the failure one.
C4_TransportFailureIsFailure ==
    \A h \in Handlers :
        (pc[h] = "return" /\ svc[h] = "raise") =>
            /\ Idle
            /\ Len(history) = snap[h].history
            /\ Len(pasted) = snap[h].pasted
            /\ Len(notified) = snap[h].notified + 1
            /\ Last(notified) = NotifyTranscriptionFailed

\* C5: when the service answered "hello world", the finished cycle has added
\* exactly one history entry; its transcription is "hello world" and its
\* audio file is the path stop_recording wrote and returned.
C5_OneEntryHelloWorld ==
    \A h \in Handlers :
        (pc[h] = "return" /\ svc[h] = "text" /\ transcription[h] = HelloWorld) =>
            /\ Len(history) = snap[h].history + 1
            /\ Last(history).transcription = HelloWorld
            /\ Last(history).audio_file = wrote[h].path
            /\ wrote[h].path # <<>>
            /\ wrote[h].upto > wrote[h].base

C5_Witness ==
    /\ pc[1] = "return" /\ svc[1] = "text" /\ transcription[1] = HelloWorld
    /\ stopped[1] = "file"

\* C6: when start_recording failed to open the stream, the hotkey-down
\* callback ends with the controller Idle and one notification more.
C6_FailedStartStaysIdle ==
    \A h \in Handlers :
        (pc[h] = "return" /\ started[h] = "failed") =>
            /\ Idle
            /\ Len(notified) = snap[h].notified + 1

\* C7: the hotkey-up callback is never the thread that runs the
\* transcription call: it has returned while the call is in progress.
C7_CallbackNotInTranscribe ==
    \A h \in Handlers : ev[h].kind = "up" => pc[h] \notin {"t_validate", "t_request"}

\* C8: a stop_recording that ends a session in which the device delivered no
\* chunk returns None and leaves the files as they were.
C8_NoChunksNoFile ==
    \A h \in Handlers :
        (stopped[h] \in {"empty", "file"} /\ wrote[h].upto = wrote[h].base) =>
            /\ stopped[h] = "empty"
            /\ audio_file[h] = <<>>
            /\ files = wrote[h].files

C8_Witness == stopped[1] = "empty" /\ wrote[1].upto = wrote[1].base /\ pc[1] = "r_nofile"

\* the bytes of the chunks base+1 .. upto of the device, in order
ExpectedPcm(base, upto) == [i \in 1..((upto - base) * ChunkBytes) |-> base * ChunkBytes + i]

\* C9: the file stop_recording wrote for a session of N chunks has a PCM data
\* section of N * ChunkBytes bytes: the chunks of the session in the order
\* the device delivered them, each once.
C9_FileHoldsAllChunks ==
    \A h \in Handlers :
        stopped[h] = "file" =>
            /\ Exists(files, wrote[h].path)
            /\ Len(PcmData(ReadFile(files, wrote[h].path)))
                 = (wrote[h].upto - wrote[h].base) * ChunkBytes
            /\ PcmData(ReadFile(files, wrote[h].path))
                 = ExpectedPcm(wrote[h].base, wrote[h].upto)

\* a file of two chunks
C9_Witness == stopped[1] = "file" /\ wrote[1].upto - wrote[1].base = 2

\* C10: stop_recording on a recorder that is not recording returns None to
\* its caller and changes neither the recorder, nor a stream, nor a file.
C10_StopIdempotent ==
    [][\A h \in Handlers :
         (pc[h] = "st_guard" /\ ~is_recording /\ pc'[h] # "st_guard") =>
             /\ pc'[h] = "r_nofile"
             /\ audio_file'[h] = <<>>
             /\ UNCHANGED <<recorderVars, streams, threads, files>>]_vars

\* stop_recording returned at its guard: once on a recorder that was never
\* started, once on one that had been stopped before
C10_Witness ==
    /\ stopped[1] = "guard" /\ pc[1] = "r_nofile"
    /\ ~is_recording /\ stream = 0

C10_WitnessStopped ==
    /\ stopped[1] = "guard" /\ pc[1] = "r_nofile"
    /\ ~is_recording /\ stream # 0

(* ---------------------------- start and stop of the recorder ----------- *)
\* the recorder's fields, and the number of capture threads ever started
RecorderState ==
    [is_recording |-> is_recording, frames |-> frames, stream |-> stream,
     recording_thread |-> recording_thread, threads |-> Len(threads)]

\* C11: when start_recording fails to open the input stream, the recorder is
\* left as the call found it (flag, frame buffer, stream, capture thread) and
\* no capture thread is started
C11_FailedStartLeavesRecorder ==
    [][\A h \in Handlers :
         (pc[h] = "s_open" /\ pc'[h] = "return")
            => RecorderState' = snap[h].recorder]_vars

\* the callback thread is inside stop_recording
StopPcs == {"st_guard", "st_flag", "st_join", "st_close", "st_frames", "st_write"}

\* the capture thread of the recorder has ended (or none was ever started)
CaptureEnded == recording_thread = 0 \/ threads[recording_thread].pc = "done"

\* C12: stop_recording closes the stream and reads the frame buffer only
\* after the capture loop has ended, on every path, the join timeout included
C12_CaptureEndedBeforeClose ==
    \A h \in Handlers : pc[h] \in {"st_close", "st_frames", "st_write"} => CaptureEnded

\* C13: stop_recording never waits on a capture loop that is blocked: at each
\* of its steps either the callback thread can take its next step, or the
\* capture thread is running and about to test the flag that stop cleared
C13_StopNeverBlocked ==
    \A h \in Handlers :
        pc[h] \in StopPcs
            => \/ ENABLED HandlerStep(h)
               \/ /\ recording_thread # 0
                  /\ threads[recording_thread].pc = "test"
                  /\ ~is_recording

\* stop_recording has returned after the join timed out: the stream is closed
\* and the capture thread is still blocked in its read
C13_Witness ==
    /\ stopped[1] \in {"empty", "file"}
    /\ recording_thread # 0
    /\ threads[recording_thread].pc = "read"
    /\ streams[stream] = "closed"

(* ---------------------------- transcription of a given file ------------ *)
\* main_test.py, lines 189-194: the file named on the command line is handed
\* to transcribe_audio_file, the same function as in the application
CliPaths ==
    { <<"a",".","m","p","3">>, <<"a",".","w","a","v">>, <<"a",".","m","4","a">>,
      <<"a",".","o","g","g">>, <<"a",".","M","P","3">>, <<"a",".","O","g","g">>,
      <<"a",".","M","4","A">>, <<"a",".","t","x","t">>, <<"a">>, <<"m","p","3">>,
      <<"a",".","m","p","3",".","b","a","k">>, <<"o",".","g","g",".","W","A","V">> }

\* a file that is not the one named
OtherFile == [path |-> <<"b",".","w","a","v">>, bytes |-> <<82, 73>>]

\* the file systems the command may find: the named file missing (alone or
\* beside another file), of zero bytes, or with content
CliFileSystems(path) ==
    { {}, {OtherFile}, {[path |-> path, bytes |-> <<>>]}, {[path |-> path, bytes |-> <<82, 73>>]} }

InitFile ==
    /\ recording = FALSE
    /\ history = <<>>
    /\ notified = <<>>
    /\ clipboard = <<>>
    /\ pasted = <<>>
    /\ is_recording = FALSE
    /\ frames = <<>>
    /\ stream = 0
    /\ recording_thread = 0
    /\ streams = <<>>
    /\ threads = <<>>
    /\ devSeq = 0
    /\ now = 0
    /\ requests = <<>>
    /\ pending = <<>>
    /\ nEvents = 0
    /\ pc = [h \in Handlers |-> IF h = 1 THEN "t_validate" ELSE "idle"]
    /\ ev = [h \in Handlers |-> NoEvent]
    /\ \E path \in CliPaths :
          /\ audio_file = [h \in Handlers |-> IF h = 1 THEN path ELSE <<>>]
          /\ files \in CliFileSystems(path)
    /\ transcription = [h \in Handlers |-> <<>>]
    /\ started = [h \in Handlers |-> "none"]
    /\ stopped = [h \in Handlers |-> "none"]
    /\ svc = [h \in Handlers |-> "none"]
    /\ wrote = [h \in Handlers |-> NoWrite]
    /\ snap = [h \in Handlers |-> NoSnap]
    /\ sessionBase = 0
    /\ sessionOpened = FALSE
    /\ process = "running"

NextFile == TranscribeValidate(1) \/ TranscribeRequest(1)

SpecFile == InitFile /\ [][NextFile]_vars

\* transcribe_audio_file has returned its result
Returned(h) == pc[h] = "r_result"

\* no request was made for the file
NoRequestFor(path) == \A i \in 1..Len(requests) : requests[i].path # path

\* C14: transcribe_audio_file checks the file before it sends anything: a
\* path that does not exist gives the file-not-found failure and a file of
\* zero bytes the empty-file failure, both returned (not raised) and both
\* without a request to the service
C14_ValidatedBeforeRequest ==
    \A h \in Handlers :
        /\ pc[h] = "t_request"
              => Exists(files, audio_file[h]) /\ GetSize(files, audio_file[h]) > 0
        /\ (Returned(h) /\ ~Exists(files, audio_file[h]))
              => /\ transcription[h] = MsgNotFound \o audio_file[h]
                 /\ ~IsSuccess(transcription[h])
                 /\ NoRequestFor(audio_file[h])
        /\ (Returned(h) /\ Exists(files, audio_file[h]) /\ GetSize(files, audio_file[h]) = 0)
              => /\ transcription[h] = MsgEmptyFile
                 /\ ~IsSuccess(transcription[h])
                 /\ NoRequestFor(audio_file[h])

C14_Witness ==
    /\ Returned(1)
    /\ Exists(files, audio_file[1])
    /\ GetSize(files, audio_file[1]) = 0
    /\ requests = <<>>

C14_WitnessNotFound ==
    /\ Returned(1)
    /\ files = {OtherFile}
    /\ transcription[1] = MsgNotFound \o audio_file[1]

\* the extension of a path runs from its last dot to the end, and is read
\* without regard to case; a path with no dot has none
RECURSIVE LastDot(_, _)
LastDot(path, i) ==
    IF i = 0 THEN 0 ELSE IF path[i] = "." THEN i ELSE LastDot(path, i - 1)

Extension(path) ==
    IF LastDot(path, Len(path)) = 0 THEN <<>>
    ELSE Lower(SubSeq(path, LastDot(path, Len(path)), Len(path)))

\* the content type each extension stands for
ContentType(ext) ==
    CASE ext = <<".","m","p","3">> -> "audio/mpeg"
      [] ext = <<".","m","4","a">> -> "audio/mp4"
      [] ext = <<".","o","g","g">> -> "audio/ogg"
      [] OTHER -> "audio/wav"

\* C15: the content type sent with a file is determined by the file's
\* extension alone: .mp3 audio/mpeg, .m4a audio/mp4, .ogg audio/ogg, and
\* audio/wav for .wav, for any other extension and for none
C15_ContentTypeByExtension ==
    \A i \in 1..Len(requests) :
        requests[i].mime = ContentType(Extension(requests[i].path))

C15_Witness ==
    \E i \in 1..Len(requests) :
        /\ requests[i].path = <<"a",".","M","4","A">>
        /\ requests[i].mime = "audio/mp4"

(* ---------------------------- history, errors and branches ------------- *)
\* entries of the history are never removed, reordered or modified
HistoryOnlyGrows ==
    [][history' # history
          => Len(history') = Len(history) + 1 /\ SubSeq(history', 1, Len(history)) = history]_vars

\* C16: the history is append-only and in insertion order: it changes only
\* by one new entry at its end, each entry is added by a callback whose
\* session was transcribed successfully (the service returned a text), and
\* a callback adds at most one entry
C16_HistoryOfSuccesses ==
    [][history' # history
          => /\ Len(history') = Len(history) + 1
             /\ SubSeq(history', 1, Len(history)) = history
             /\ \E h \in Handlers :
                   /\ pc[h] = "r_history"
                   /\ svc[h] = "text"
                   /\ Len(history) = snap[h].history
                   /\ Last(history').transcription = transcription[h]]_vars

\* C17: the process exits on no error but the missing credential
C17_OnlyCredentialFatal == Exited => process = "exit_credential"

\* C18: the stop_recording that ends a session which start_recording opened
\* and in which at least one chunk was captured returns the path of a file
\* that holds all chunks of the session, also after a device read error
C18_ChunksWritten ==
    [][\A h \in Handlers :
         (pc[h] \in StopPcs /\ pc'[h] \notin StopPcs /\ sessionOpened /\ devSeq > sessionBase)
            => /\ stopped'[h] = "file"
               /\ audio_file'[h] # <<>>
               /\ Exists(files', audio_file'[h])
               /\ PcmData(ReadFile(files', audio_file'[h])) = ExpectedPcm(sessionBase, devSeq)]_vars

\* the success branch of on_hotkey_released (lines 293-307)
SuccessPcs == {"r_paste", "r_keystroke", "r_history", "r_completed"}

\* C19: the success branch is taken exactly when the service returned a
\* text, and the failure branch exactly when transcribe_audio_file failed
\* (file not found, empty file, invalid response, service or transport error)
C19_BranchMatchesOutcome ==
    \A h \in Handlers :
        /\ pc[h] \in SuccessPcs => svc[h] = "text"
        /\ pc[h] = "r_failed" => svc[h] # "text"

AllStreamsClosed == \A i \in 1..Len(streams) : streams[i] = "closed"

\* C21: when the hotkey-up callback of a session has finished, the stream
\* start_recording opened for it is closed, on the normal path, after an
\* empty recording, after a read error and after a join timeout; no stream
\* is open while the controller is Idle and no callback runs
C21_StreamClosedAfterStop ==
    /\ \A h \in Handlers :
          (pc[h] = "return" /\ ev[h].kind = "up" /\ stopped[h] # "none") => AllStreamsClosed
    /\ (Idle /\ \A h \in Handlers : pc[h] = "idle") => AllStreamsClosed

\* C22: transcribe_audio_file is entered only from a stop_recording that
\* returned a file, with that file's path, and a callback sends at most one
\* request; a callback whose stop_recording returned no file makes no
\* request, emits the recording-failed notification alone and ends Idle
C22_TranscribeOncePerSession ==
    \A h \in Handlers :
        /\ InFlight(h)
              => /\ stopped[h] = "file"
                 /\ audio_file[h] = wrote[h].path
                 /\ wrote[h].path # <<>>
        /\ pc[h] # "idle"
              => /\ Len(requests) <= snap[h].requests + 1
                 /\ \A i \in (snap[h].requests + 1)..Len(requests) :
                       requests[i].path = wrote[h].path
        /\ pc[h] \in {"t_validate", "t_request"} => Len(requests) = snap[h].requests
        /\ (pc[h] = "return" /\ stopped[h] \in {"guard", "empty", "error"})
              => /\ Len(requests) = snap[h].requests
                 /\ Len(notified) = snap[h].notified + 1
                 /\ Last(notified) = NotifyRecordingFailed
                 /\ Len(history) = snap[h].history
                 /\ Len(pasted) = snap[h].pasted
                 /\ Idle

\* an empty session has ended with the recording-failed notification
C22_Witness ==
    /\ pc[1] = "return"
    /\ stopped[1] = "empty"
    /\ Last(notified) = NotifyRecordingFailed
    /\ Len(requests) = snap[1].requests

\* a transcription that failed has ended its callback after one request
C22_WitnessFailed ==
    /\ pc[1] = "return"
    /\ svc[1] = "invalid"
    /\ Len(requests) = snap[1].requests + 1
    /\ Last(notified) = NotifyTranscriptionFailed

\* a capture thread that can still append to self.frames: it is inside a
\* read, or about to find the flag set
AbleToAppend(t) ==
    \/ threads[t].pc = "read"
    \/ threads[t].pc = "test" /\ is_recording

\* C23: at most one capture loop can append to the frame buffer at any time;
\* a thread left blocked in its read by a join timeout does not append again
\* once a later session has been started
C23_OneCaptureLoop ==
    Cardinality({t \in 1..Len(threads) : AbleToAppend(t)}) <= 1

\* C24: a hotkey-up handled while self.recording is False does nothing: the
\* callback returns at once, stop_recording and transcribe_audio_file are
\* not entered, nothing is notified, and the history, the recorder, the
\* streams, the threads, the files and the requests are unchanged
C24_ReleaseWhileIdleNoOp ==
    [][\A h \in Handlers :
         (pc[h] = "r_check" /\ ~recording /\ pc'[h] # "r_check")
            => /\ pc'[h] = "return"
               /\ stopped'[h] = "none"
               /\ UNCHANGED <<appVars, recorderVars, deviceVars, worldVars>>]_vars

\* a hotkey-up received and handled while Idle has returned
C24_Witness ==
    /\ pc[1] = "return"
    /\ ev[1].kind = "up"
    /\ ev[1].during = "Idle"
    /\ stopped[1] = "none"
    /\ ~recording

\* no callback is running: the state between the handling of two events
Quiescent == \A h \in Handlers : pc[h] = "idle"

\* C25: between the handling of events the two flags agree: when
\* self.recording is True the recorder has is_recording True and an open
\* stream, and when it is False the recorder has is_recording False
C25_FlagsAgree ==
    Quiescent
        => /\ recording => (is_recording /\ stream # 0 /\ streams[stream] = "open")
           /\ ~recording => ~is_recording
====
